---- MODULE Spec2Model ----
(***************************************************************************)
(* Work/break countdown timer (src/app/page.tsx): the zustand store        *)
(* useTimerStore, the interval callback it registers with the host timer   *)
(* facility, and the duration handlers of the Home component.              *)
(***************************************************************************)
EXTENDS Integers, FiniteSets, Sequences, TLC

\* ---------------------------------------------------------------- bounds
\* Interval handles the host can hand out at the same time.
MaxHandles == 2
\* Largest magnitude of the small values typed into a duration field (the
\* values around the two caps are always typed as well).
MaxTyped == 2

\* ------------------------------------------------------ program constants
SecondsPerMinute == 60
WorkCapMinutes == 120
BreakCapMinutes == 60
MinMinutes == 1
DefaultWorkMinutes == 50
DefaultBreakMinutes == 10

NULL == 0
Handles == 1..MaxHandles

\* notificationSound: null, or an HTMLAudioElement.
NoSound == "null"
Sounds == {"audio"}

\* What parseInt(e.target.value) can produce for a number field: an integer,
\* or NaN for empty or non-numeric text.
NaN == [nan |-> TRUE, n |-> 0]
Num(n) == [nan |-> FALSE, n |-> n]
\* Values typed while the countdown is explored: one that clamps up to the
\* minimum and one that clamps down to either cap.
TypedValues == {NaN, Num(WorkCapMinutes + 1)}
\* Values typed when the duration form is explored on its own.
FormTypedValues ==
  {Num(n) : n \in ((0 - MaxTyped)..MaxTyped)
                   \cup {BreakCapMinutes + 1, WorkCapMinutes + 1}}
    \cup {NaN}

VARIABLES
  workTime,           \* store.workTime, seconds
  breakTime,          \* store.breakTime, seconds
  remainingTime,      \* store.remainingTime, seconds
  isRunning,          \* store.isRunning
  isWorkSession,      \* store.isWorkSession
  intervalId,         \* store.intervalId, NULL or a handle
  timers,             \* handles live in the host timer facility
  inputWorkMinutes,   \* Home: draft of the work field
  inputBreakMinutes,  \* Home: draft of the break field
  lastOp,             \* history: the operation that produced this state
  run,                \* history: ticks since a start() from a full session
  preStart,           \* history: remainingTime before the start() just made
  notificationSound,  \* store.notificationSound, NoSound or an audio element
  captured,           \* notificationSound as captured by each handle's callback
  sink                \* history: what the last operation did with the sound

store == <<workTime, breakTime, remainingTime, isRunning, isWorkSession, intervalId>>
vars == <<workTime, breakTime, remainingTime, isRunning, isWorkSession,
          intervalId, timers, inputWorkMinutes, inputBreakMinutes,
          lastOp, run, preStart, notificationSound, captured, sink>>

Min(a, b) == IF a < b THEN a ELSE b
Max(a, b) == IF a > b THEN a ELSE b

\* Full duration of a session type under a configuration.
SessionDuration(isWork, work, break) == IF isWork THEN work ELSE break

\* setInterval: the host returns a handle that is not in use.
FreshHandle(live, held) ==
  CHOOSE h \in Handles \ (live \cup {held}) :
    \A g \in Handles \ (live \cup {held}) : h <= g

\* clearInterval(id)
ClearInterval(live, id) == live \ {id}

\* Mutant: pauseTimer forgets to clear the handle.
PauseTimersKeepsHandle(live, id) == live

\* pauseTimer's effect on the host: clears the recorded handle if there is one.
PauseTimers(live, id) == IF id # NULL THEN ClearInterval(live, id) ELSE live

\* notificationSound?.play().catch(...): nothing happens without a sound; with
\* one, the promise of play() resolves, or rejects and the rejection is logged.
PlayOutcomes(sound) ==
  IF sound = NoSound THEN {"absent"} ELSE {"resolved", "rejected"}

\* Mutant: the callback ends the session only below 0.
SessionOverLate(remaining) == remaining < 0

\* Mutant: the callback ends the session on the tick that would reach 0.
SessionOverEarly(remaining) == remaining - 1 <= 0

\* The interval callback ends the session when no time is left.
SessionOver(remaining) == remaining <= 0

\* parseInt(e.target.value) || 0
ParseDraft(raw) == IF raw.nan \/ raw.n = 0 THEN 0 ELSE raw.n

\* Mutant: the lower clamp is missing.
ClampWorkNoFloor(minutes) == Min(minutes, WorkCapMinutes) * SecondsPerMinute

\* Math.max(1, Math.min(input, cap)) * 60
ClampWork(minutes) == Max(MinMinutes, Min(minutes, WorkCapMinutes)) * SecondsPerMinute
ClampBreak(minutes) == Max(MinMinutes, Min(minutes, BreakCapMinutes)) * SecondsPerMinute

\* ------------------------------------------------------------- display

MillisPerSecond == 1000
MillisPerMinute == 60000
MinutesPerHour == 60

\* Offsets from UTC, in minutes, of the time zones the page is rendered in;
\* all of them are whole hours.
TimeZoneOffsets == {0 - 300, 0, 60}

DigitChar(d) == <<"0", "1", "2", "3", "4", "5", "6", "7", "8", "9">>[d + 1]

\* The decimal digits of a natural number.
RECURSIVE Digits(_)
Digits(n) == IF n < 10 THEN <<DigitChar(n)>>
             ELSE Append(Digits(n \div 10), DigitChar(n % 10))

\* Zero-padding to at least two digits.
Pad2(n) == IF n < 10 THEN <<"0">> \o Digits(n) ELSE Digits(n)

\* format(new Date(millis), "mm:ss") of date-fns in a zone at the given
\* offset: the minute of the hour and the second of the minute of the local
\* time, each on two digits.
FormatMmSs(millis, offset) ==
  Pad2(((millis + offset * MillisPerMinute) \div MillisPerMinute) % MinutesPerHour)
    \o <<":">>
    \o Pad2((millis \div MillisPerSecond) % SecondsPerMinute)

\* What Home renders for the remaining time.
Display(offset) == FormatMmSs(remainingTime * MillisPerSecond, offset)

\* No run from a full session is being followed.
NoRun == [from |-> 0 - 1, session |-> TRUE, ticks |-> 0, flips |-> 0]
NoPreStart == [remaining |-> 0 - 1, running |-> FALSE, afterStart |-> FALSE]

Init ==
  /\ workTime = DefaultWorkMinutes * SecondsPerMinute
  /\ breakTime = DefaultBreakMinutes * SecondsPerMinute
  /\ remainingTime = DefaultWorkMinutes * SecondsPerMinute
  /\ isRunning = FALSE
  /\ isWorkSession = TRUE
  /\ intervalId = NULL
  /\ timers = {}
  /\ inputWorkMinutes = DefaultWorkMinutes
  /\ inputBreakMinutes = DefaultBreakMinutes
  /\ lastOp = "init"
  /\ run = NoRun
  /\ preStart = NoPreStart
  /\ notificationSound = NoSound
  /\ captured = [h \in Handles |-> NoSound]
  /\ sink = "none"

\* Mutant: startTimer without the isRunning guard.
StartTimerUnguarded ==
  /\ lastOp' = IF isRunning THEN "startAgain" ELSE "start"
  /\ sink' = "none"
  /\ UNCHANGED notificationSound
  /\ preStart' = [remaining |-> remainingTime, running |-> isRunning,
                   afterStart |-> lastOp \in {"start", "startAgain"}]
  /\ run' = NoRun
  /\ UNCHANGED <<workTime, breakTime, isWorkSession, inputWorkMinutes, inputBreakMinutes>>
  /\ Handles \ (timers \cup {intervalId}) # {}
  /\ remainingTime' = IF remainingTime = 0
                        THEN SessionDuration(isWorkSession, workTime, breakTime)
                        ELSE remainingTime
  /\ isRunning' = TRUE
  /\ intervalId' = FreshHandle(timers, intervalId)
  /\ timers' = timers \cup {FreshHandle(timers, intervalId)}
  /\ captured' = [captured EXCEPT ![FreshHandle(timers, intervalId)] = notificationSound]

\* Mutant: startTimer replaces the interval when the timer is running.
StartTimerRestarts ==
  /\ lastOp' = IF isRunning THEN "startAgain" ELSE "start"
  /\ sink' = "none"
  /\ UNCHANGED notificationSound
  /\ preStart' = [remaining |-> remainingTime, running |-> isRunning,
                   afterStart |-> lastOp \in {"start", "startAgain"}]
  /\ run' = IF ~isRunning /\ remainingTime = SessionDuration(isWorkSession, workTime, breakTime)
              THEN [from |-> remainingTime, session |-> isWorkSession, ticks |-> 0, flips |-> 0]
              ELSE NoRun
  /\ UNCHANGED <<workTime, breakTime, isWorkSession, inputWorkMinutes, inputBreakMinutes>>
  /\ Handles \ (timers \cup {intervalId}) # {}
  /\ remainingTime' = IF remainingTime = 0
                        THEN SessionDuration(isWorkSession, workTime, breakTime)
                        ELSE remainingTime
  /\ isRunning' = TRUE
  /\ intervalId' = FreshHandle(timers, intervalId)
  /\ timers' = PauseTimers(timers, intervalId) \cup {FreshHandle(timers, intervalId)}
  /\ captured' = [captured EXCEPT ![FreshHandle(timers, intervalId)] = notificationSound]

\* Mutant: startTimer at 0 does not restore the session's duration.
StartTimerNoRewind ==
  /\ lastOp' = IF isRunning THEN "startAgain" ELSE "start"
  /\ sink' = "none"
  /\ UNCHANGED notificationSound
  /\ preStart' = [remaining |-> remainingTime, running |-> isRunning,
                   afterStart |-> lastOp \in {"start", "startAgain"}]
  /\ run' = IF ~isRunning /\ remainingTime = SessionDuration(isWorkSession, workTime, breakTime)
              THEN [from |-> remainingTime, session |-> isWorkSession, ticks |-> 0, flips |-> 0]
              ELSE NoRun
  /\ UNCHANGED <<workTime, breakTime, isWorkSession, inputWorkMinutes, inputBreakMinutes,
                 remainingTime>>
  /\ IF isRunning
       THEN UNCHANGED <<isRunning, intervalId, timers, captured>>
       ELSE /\ Handles \ (timers \cup {intervalId}) # {}
            /\ isRunning' = TRUE
            /\ intervalId' = FreshHandle(timers, intervalId)
            /\ timers' = timers \cup {FreshHandle(timers, intervalId)}
            /\ captured' = [captured EXCEPT ![FreshHandle(timers, intervalId)] = notificationSound]

\* Mutant: startTimer at 0 moves on to the other session.
StartTimerFlipsOnZero ==
  /\ lastOp' = IF isRunning THEN "startAgain" ELSE "start"
  /\ sink' = "none"
  /\ UNCHANGED notificationSound
  /\ preStart' = [remaining |-> remainingTime, running |-> isRunning,
                   afterStart |-> lastOp \in {"start", "startAgain"}]
  /\ run' = IF ~isRunning /\ remainingTime = SessionDuration(isWorkSession, workTime, breakTime)
              THEN [from |-> remainingTime, session |-> isWorkSession, ticks |-> 0, flips |-> 0]
              ELSE NoRun
  /\ UNCHANGED <<workTime, breakTime, inputWorkMinutes, inputBreakMinutes>>
  /\ IF isRunning
       THEN UNCHANGED <<remainingTime, isWorkSession, isRunning, intervalId, timers, captured>>
       ELSE /\ Handles \ (timers \cup {intervalId}) # {}
            /\ isWorkSession' = IF remainingTime = 0 THEN ~isWorkSession ELSE isWorkSession
            /\ remainingTime' = IF remainingTime = 0
                                  THEN SessionDuration(~isWorkSession, workTime, breakTime)
                                  ELSE remainingTime
            /\ isRunning' = TRUE
            /\ intervalId' = FreshHandle(timers, intervalId)
            /\ timers' = timers \cup {FreshHandle(timers, intervalId)}
            /\ captured' = [captured EXCEPT ![FreshHandle(timers, intervalId)] = notificationSound]

\* startTimer
StartTimer ==
  /\ lastOp' = IF isRunning THEN "startAgain" ELSE "start"
  /\ sink' = "none"
  /\ UNCHANGED notificationSound
  /\ preStart' = [remaining |-> remainingTime, running |-> isRunning,
                   afterStart |-> lastOp \in {"start", "startAgain"}]
  /\ run' = IF ~isRunning /\ remainingTime = SessionDuration(isWorkSession, workTime, breakTime)
              THEN [from |-> remainingTime, session |-> isWorkSession, ticks |-> 0, flips |-> 0]
              ELSE NoRun
  /\ UNCHANGED <<workTime, breakTime, isWorkSession, inputWorkMinutes, inputBreakMinutes>>
  /\ IF isRunning
       THEN UNCHANGED <<remainingTime, isRunning, intervalId, timers, captured>>
       ELSE /\ Handles \ (timers \cup {intervalId}) # {}
            /\ captured' = [captured EXCEPT ![FreshHandle(timers, intervalId)] = notificationSound]
            /\ remainingTime' = IF remainingTime = 0
                                  THEN SessionDuration(isWorkSession, workTime, breakTime)
                                  ELSE remainingTime
            /\ isRunning' = TRUE
            /\ intervalId' = FreshHandle(timers, intervalId)
            /\ timers' = timers \cup {FreshHandle(timers, intervalId)}

\* Mutant: the callback starts the next session by itself.
TickAutoContinue(h) ==
  /\ h \in timers
  /\ preStart' = NoPreStart
  /\ run' = NoRun
  /\ UNCHANGED <<workTime, breakTime, inputWorkMinutes, inputBreakMinutes,
                 isRunning, intervalId, timers, notificationSound, captured>>
  /\ IF SessionOver(remainingTime)
       THEN /\ isWorkSession' = ~isWorkSession
            /\ sink' \in PlayOutcomes(captured[h])
            /\ remainingTime' = SessionDuration(~isWorkSession, workTime, breakTime)
            /\ lastOp' = "tickEnd"
       ELSE /\ remainingTime' = remainingTime - 1
            /\ UNCHANGED isWorkSession
            /\ sink' = "none"
            /\ lastOp' = "tick"

\* Mutant: a rejected play() aborts the callback after it cleared the interval.
TickFailureFatal(h) ==
  /\ h \in timers
  /\ preStart' = NoPreStart
  /\ UNCHANGED <<workTime, breakTime, inputWorkMinutes, inputBreakMinutes,
                 notificationSound, captured>>
  /\ IF SessionOver(remainingTime)
       THEN /\ timers' = ClearInterval(timers, intervalId)
            /\ sink' \in PlayOutcomes(captured[h])
            /\ lastOp' = "tickEnd"
            /\ run' = NoRun
            /\ IF sink' = "rejected"
                 THEN UNCHANGED <<isRunning, isWorkSession, remainingTime, intervalId>>
                 ELSE /\ isRunning' = FALSE
                      /\ isWorkSession' = ~isWorkSession
                      /\ remainingTime' = SessionDuration(~isWorkSession, workTime, breakTime)
                      /\ intervalId' = NULL
       ELSE /\ remainingTime' = remainingTime - 1
            /\ UNCHANGED <<isRunning, isWorkSession, intervalId, timers>>
            /\ sink' = "none"
            /\ lastOp' = "tick"
            /\ run' = NoRun

\* Mutant: the callback does nothing once no time is left.
TickStalls(h) ==
  /\ h \in timers
  /\ IF SessionOver(remainingTime)
       THEN UNCHANGED vars
       ELSE /\ remainingTime' = remainingTime - 1
            /\ preStart' = NoPreStart
            /\ sink' = "none"
            /\ lastOp' = "tick"
            /\ run' = NoRun
            /\ UNCHANGED <<workTime, breakTime, inputWorkMinutes, inputBreakMinutes,
                           notificationSound, captured, isRunning, isWorkSession,
                           intervalId, timers>>

\* The callback registered by startTimer, fired by the host for live handle h.
Tick(h) ==
  /\ h \in timers
  /\ preStart' = NoPreStart
  /\ UNCHANGED <<workTime, breakTime, inputWorkMinutes, inputBreakMinutes,
                 notificationSound, captured>>
  /\ IF SessionOver(remainingTime)
       THEN /\ timers' = ClearInterval(timers, intervalId)
            /\ sink' \in PlayOutcomes(captured[h])
            /\ isRunning' = FALSE
            /\ isWorkSession' = ~isWorkSession
            /\ remainingTime' = SessionDuration(~isWorkSession, workTime, breakTime)
            /\ intervalId' = NULL
            /\ lastOp' = "tickEnd"
            /\ run' = IF run = NoRun THEN NoRun
                      ELSE [run EXCEPT !.ticks = @ + 1, !.flips = @ + 1]
       ELSE /\ remainingTime' = remainingTime - 1
            /\ UNCHANGED <<isRunning, isWorkSession, intervalId, timers>>
            /\ sink' = "none"
            /\ lastOp' = "tick"
            /\ run' = IF run = NoRun THEN NoRun ELSE [run EXCEPT !.ticks = @ + 1]

\* Mutant: pauseTimer rewinds the session as resetTimer does.
PauseTimerRewinds ==
  /\ timers' = PauseTimers(timers, intervalId)
  /\ remainingTime' = SessionDuration(isWorkSession, workTime, breakTime)
  /\ isRunning' = FALSE
  /\ intervalId' = NULL
  /\ lastOp' = "pause"
  /\ sink' = "none"
  /\ UNCHANGED <<notificationSound, captured>>
  /\ run' = NoRun
  /\ preStart' = IF lastOp \in {"start", "startAgain"} THEN preStart ELSE NoPreStart
  /\ UNCHANGED <<workTime, breakTime, isWorkSession, inputWorkMinutes, inputBreakMinutes>>

\* Mutant: pauseTimer clears the interval and leaves isRunning set.
PauseTimerKeepsRunning ==
  /\ timers' = PauseTimers(timers, intervalId)
  /\ intervalId' = NULL
  /\ lastOp' = "pause"
  /\ sink' = "none"
  /\ UNCHANGED <<notificationSound, captured>>
  /\ run' = NoRun
  /\ preStart' = IF lastOp \in {"start", "startAgain"} THEN preStart ELSE NoPreStart
  /\ UNCHANGED <<workTime, breakTime, remainingTime, isWorkSession, isRunning,
                 inputWorkMinutes, inputBreakMinutes>>

\* pauseTimer
PauseTimer ==
  /\ timers' = PauseTimers(timers, intervalId)
  /\ isRunning' = FALSE
  /\ intervalId' = NULL
  /\ lastOp' = "pause"
  /\ sink' = "none"
  /\ UNCHANGED <<notificationSound, captured>>
  /\ run' = NoRun
  /\ preStart' = IF lastOp \in {"start", "startAgain"} THEN preStart ELSE NoPreStart
  /\ UNCHANGED <<workTime, breakTime, remainingTime, isWorkSession,
                 inputWorkMinutes, inputBreakMinutes>>

\* Mutant: resetTimer always restores the work duration.
ResetTimerToWork ==
  /\ timers' = PauseTimers(timers, intervalId)
  /\ remainingTime' = workTime
  /\ isRunning' = FALSE
  /\ intervalId' = NULL
  /\ lastOp' = "reset"
  /\ sink' = "none"
  /\ UNCHANGED <<notificationSound, captured>>
  /\ run' = NoRun
  /\ preStart' = NoPreStart
  /\ UNCHANGED <<workTime, breakTime, isWorkSession, inputWorkMinutes, inputBreakMinutes>>

\* resetTimer: pauseTimer, then the full duration of the current session.
ResetTimer ==
  /\ timers' = PauseTimers(timers, intervalId)
  /\ remainingTime' = SessionDuration(isWorkSession, workTime, breakTime)
  /\ isRunning' = FALSE
  /\ intervalId' = NULL
  /\ lastOp' = "reset"
  /\ sink' = "none"
  /\ UNCHANGED <<notificationSound, captured>>
  /\ run' = NoRun
  /\ preStart' = NoPreStart
  /\ UNCHANGED <<workTime, breakTime, isWorkSession, inputWorkMinutes, inputBreakMinutes>>

\* Mutant: skipSession takes the duration of the session it leaves.
SkipSessionKeepsDuration ==
  /\ timers' = PauseTimers(timers, intervalId)
  /\ isWorkSession' = ~isWorkSession
  /\ remainingTime' = SessionDuration(isWorkSession, workTime, breakTime)
  /\ isRunning' = FALSE
  /\ intervalId' = NULL
  /\ lastOp' = "skip"
  /\ sink' = "none"
  /\ UNCHANGED <<notificationSound, captured>>
  /\ run' = NoRun
  /\ preStart' = NoPreStart
  /\ UNCHANGED <<workTime, breakTime, inputWorkMinutes, inputBreakMinutes>>

\* skipSession: pauseTimer, then the other session at its full duration.
SkipSession ==
  /\ timers' = PauseTimers(timers, intervalId)
  /\ isWorkSession' = ~isWorkSession
  /\ remainingTime' = SessionDuration(~isWorkSession, workTime, breakTime)
  /\ isRunning' = FALSE
  /\ intervalId' = NULL
  /\ lastOp' = "skip"
  /\ sink' = "none"
  /\ UNCHANGED <<notificationSound, captured>>
  /\ run' = NoRun
  /\ preStart' = NoPreStart
  /\ UNCHANGED <<workTime, breakTime, inputWorkMinutes, inputBreakMinutes>>

\* onChange of the work field
ChangeWorkInput(raw) ==
  /\ inputWorkMinutes' = ParseDraft(raw)
  /\ lastOp' = "changeWork"
  /\ sink' = "none"
  /\ UNCHANGED <<notificationSound, captured>>
  /\ run' = NoRun
  /\ preStart' = NoPreStart
  /\ UNCHANGED <<store, timers, inputBreakMinutes>>

\* onChange of the break field
ChangeBreakInput(raw) ==
  /\ inputBreakMinutes' = ParseDraft(raw)
  /\ lastOp' = "changeBreak"
  /\ sink' = "none"
  /\ UNCHANGED <<notificationSound, captured>>
  /\ run' = NoRun
  /\ preStart' = NoPreStart
  /\ UNCHANGED <<store, timers, inputWorkMinutes>>

\* Mutant: handleSetWorkTime without the isRunning test.
SetWorkTimeFromAlways(minutes) ==
  /\ workTime' = ClampWork(minutes)
  /\ remainingTime' = IF isWorkSession THEN ClampWork(minutes) ELSE remainingTime
  /\ lastOp' = "setWork"
  /\ sink' = "none"
  /\ UNCHANGED <<notificationSound, captured>>
  /\ run' = NoRun
  /\ preStart' = NoPreStart
  /\ UNCHANGED <<breakTime, isRunning, isWorkSession, intervalId, timers>>

\* Body of handleSetWorkTime for the draft value its closure holds.
SetWorkTimeFrom(minutes) ==
  /\ workTime' = ClampWork(minutes)
  /\ remainingTime' = IF isWorkSession /\ ~isRunning
                        THEN ClampWork(minutes)
                        ELSE remainingTime
  /\ lastOp' = "setWork"
  /\ sink' = "none"
  /\ UNCHANGED <<notificationSound, captured>>
  /\ run' = NoRun
  /\ preStart' = NoPreStart
  /\ UNCHANGED <<breakTime, isRunning, isWorkSession, intervalId, timers>>

\* Body of handleSetBreakTime for the draft value its closure holds.
SetBreakTimeFrom(minutes) ==
  /\ breakTime' = ClampBreak(minutes)
  /\ remainingTime' = IF ~isWorkSession /\ ~isRunning
                        THEN ClampBreak(minutes)
                        ELSE remainingTime
  /\ lastOp' = "setBreak"
  /\ sink' = "none"
  /\ UNCHANGED <<notificationSound, captured>>
  /\ run' = NoRun
  /\ preStart' = NoPreStart
  /\ UNCHANGED <<workTime, isRunning, isWorkSession, intervalId, timers>>

\* handleSetWorkTime (blur, Enter or the Set button) on the current draft
HandleSetWorkTime ==
  /\ SetWorkTimeFrom(inputWorkMinutes)
  /\ UNCHANGED <<inputWorkMinutes, inputBreakMinutes>>

\* handleSetBreakTime (blur, Enter or the Set button) on the current draft
HandleSetBreakTime ==
  /\ SetBreakTimeFrom(inputBreakMinutes)
  /\ UNCHANGED <<inputWorkMinutes, inputBreakMinutes>>

\* The user types a value into the work field and commits it: onChange, the
\* re-render, then handleSetWorkTime.  The drafts are read by nothing but
\* these two handlers, so the store sees the same sequences as with the two
\* steps taken apart.
SetWorkDuration(raw) ==
  /\ inputWorkMinutes' = ParseDraft(raw)
  /\ SetWorkTimeFrom(ParseDraft(raw))
  /\ UNCHANGED inputBreakMinutes

\* The same for the break field.
SetBreakDuration(raw) ==
  /\ inputBreakMinutes' = ParseDraft(raw)
  /\ SetBreakTimeFrom(ParseDraft(raw))
  /\ UNCHANGED inputWorkMinutes

TickStep == \E h \in timers : Tick(h)

Next ==
  \/ StartTimer
  \/ TickStep
  \/ PauseTimer
  \/ ResetTimer
  \/ SkipSession
  \/ \E raw \in TypedValues : SetWorkDuration(raw)
  \/ \E raw \in TypedValues : SetBreakDuration(raw)
  \/ HandleSetWorkTime
  \/ HandleSetBreakTime

Spec == Init /\ [][Next]_vars

\* The duration form on its own: the drafts are typed and committed in
\* separate steps, around the store's operations, with the clock not firing.
NextForm ==
  \/ \E raw \in FormTypedValues : ChangeWorkInput(raw)
  \/ \E raw \in FormTypedValues : ChangeBreakInput(raw)
  \/ HandleSetWorkTime
  \/ HandleSetBreakTime
  \/ StartTimer
  \/ PauseTimer
  \/ ResetTimer
  \/ SkipSession

SpecForm == Init /\ [][NextForm]_vars

\* setNotificationSound, called by a host of the store.
SetNotificationSound(audio) ==
  /\ notificationSound' = audio
  /\ lastOp' = "setSound"
  /\ sink' = "none"
  /\ run' = NoRun
  /\ preStart' = NoPreStart
  /\ UNCHANGED <<store, timers, captured, inputWorkMinutes, inputBreakMinutes>>

\* The store under a host that sets a notification sound, with the short
\* durations only.
NextSound ==
  \/ \E audio \in Sounds : SetNotificationSound(audio)
  \/ StartTimer
  \/ TickStep
  \/ PauseTimer
  \/ ResetTimer
  \/ SkipSession
  \/ SetWorkDuration(NaN)
  \/ SetBreakDuration(NaN)

SpecSound == Init /\ [][NextSound]_vars

\* The widget left alone while it runs: the user acts on a stopped timer
\* only, and the host keeps firing the callback of a live interval.
NextLive ==
  \/ TickStep
  \/ ~isRunning /\ StartTimer
  \/ ~isRunning /\ PauseTimer
  \/ ~isRunning /\ ResetTimer
  \/ ~isRunning /\ SkipSession
  \/ ~isRunning /\ SetWorkDuration(NaN)
  \/ ~isRunning /\ SetBreakDuration(NaN)

SpecLive == Init /\ [][NextLive]_vars /\ WF_vars(TickStep)

\* ------------------------------------------------------------- claims

\* C1: remainingSeconds is at most the configured duration of the session
\* type that is active, in every reachable state.
C1_RemainingWithinDuration ==
  remainingTime <= SessionDuration(isWorkSession, workTime, breakTime)

C3_NoTickWhenStopped ==
  ~isRunning => (timers = {} /\ intervalId = NULL /\ ~ENABLED TickStep)

\* Paused in the middle of a session.
C3_Witness ==
  /\ lastOp = "pause"
  /\ ~isRunning
  /\ 0 < remainingTime
  /\ remainingTime < SessionDuration(isWorkSession, workTime, breakTime)

\* C4: at most one tick handle is live, and a live handle is the one
\* recorded in intervalId; start() while running creates no handle.
C4_OneLiveHandle ==
  /\ Cardinality(timers) <= 1
  /\ \A h \in timers : h = intervalId
  /\ isRunning => timers = {intervalId}

\* start() was called while the timer was running.
C4_Witness ==
  /\ lastOp = "startAgain"
  /\ isRunning
  /\ timers # {}

\* C5: the tick that ends a session leaves the engine Stopped with no live
\* handle, the session type flipped and remainingSeconds at the duration
\* configured for the new session type; no tick can follow.
C5_SessionEndStops ==
  [][lastOp' = "tickEnd" =>
       /\ ~isRunning'
       /\ timers' = {}
       /\ intervalId' = NULL
       /\ isWorkSession' = ~isWorkSession
       /\ remainingTime' = SessionDuration(isWorkSession', workTime', breakTime')
       /\ ~(ENABLED TickStep)']_vars

\* A work session has ended with a break duration that was reconfigured.
C5_Witness ==
  /\ lastOp = "tickEnd"
  /\ ~isWorkSession
  /\ breakTime = BreakCapMinutes * SecondsPerMinute
  /\ remainingTime = breakTime

C7_SetDurationFrame ==
  [][/\ lastOp' = "setWork" =>
          /\ remainingTime' = IF isWorkSession /\ ~isRunning
                                THEN workTime' ELSE remainingTime
          /\ UNCHANGED <<isRunning, isWorkSession, intervalId, timers>>
     /\ lastOp' = "setBreak" =>
          /\ remainingTime' = IF ~isWorkSession /\ ~isRunning
                                THEN breakTime' ELSE remainingTime
          /\ UNCHANGED <<isRunning, isWorkSession, intervalId, timers>>]_vars

\* The work duration was lowered under a running work session.
C7_Witness ==
  /\ lastOp = "setWork"
  /\ isRunning
  /\ isWorkSession
  /\ remainingTime > workTime

\* C8: committing m minutes stores 60 * min(max(m, 1), 120) as the work
\* duration, or 60 * min(max(m, 1), 60) as the break duration, and leaves
\* the other duration unchanged.
C8_DurationClamped ==
  [][/\ lastOp' = "setWork" =>
          /\ workTime' = 60 * Min(Max(inputWorkMinutes, 1), 120)
          /\ breakTime' = breakTime
     /\ lastOp' = "setBreak" =>
          /\ breakTime' = 60 * Min(Max(inputBreakMinutes, 1), 60)
          /\ workTime' = workTime]_vars

\* A negative break draft committed after a work draft above the cap.
C8_Witness ==
  /\ lastOp = "setBreak"
  /\ inputBreakMinutes < 0
  /\ breakTime = 60
  /\ inputWorkMinutes > 120
  /\ workTime = 7200

\* C9: reset() yields Stopped with remainingSeconds at the configured full
\* duration of the current session type, the session type unchanged and no
\* live handle.
C9_ResetRestoresFull ==
  [][lastOp' = "reset" =>
       /\ ~isRunning'
       /\ isWorkSession' = isWorkSession
       /\ remainingTime' = SessionDuration(isWorkSession, workTime', breakTime')
       /\ timers' = {}
       /\ intervalId' = NULL]_vars

\* A break session reset after its duration was reconfigured.
C9_Witness ==
  /\ lastOp = "reset"
  /\ ~isWorkSession
  /\ breakTime # DefaultBreakMinutes * SecondsPerMinute
  /\ remainingTime = breakTime

C11_StartIdempotent ==
  [][(lastOp \in {"start", "startAgain"} /\ lastOp' \in {"start", "startAgain"}) =>
       UNCHANGED <<store, timers, notificationSound>>]_vars

\* start() twice in a row from a stopped timer in the middle of a session.
C11_Witness ==
  /\ lastOp = "startAgain"
  /\ preStart.afterStart
  /\ isRunning
  /\ timers = {intervalId}
  /\ remainingTime < SessionDuration(isWorkSession, workTime, breakTime)

\* C12: the tick that ends a session invokes the completion sound once, and
\* no other operation invokes it.
C12_SinkInvokedAtSessionEnd ==
  /\ lastOp = "tickEnd" => sink \in {"resolved", "rejected"}
  /\ lastOp # "tickEnd" => sink = "none"

\* C14: start() on a stopped timer at 0 restores the full duration of the
\* current session and runs; above 0 it leaves remainingSeconds alone; the
\* session type is unchanged in both cases.
C14_StartRewindsAtZero ==
  [][lastOp' = "start" =>
       /\ ~isRunning
       /\ isRunning'
       /\ isWorkSession' = isWorkSession
       /\ remainingTime' = IF remainingTime = 0
                             THEN SessionDuration(isWorkSession, workTime, breakTime)
                             ELSE remainingTime]_vars

\* start() was made on a timer paused at 0.
C14_Witness ==
  /\ lastOp = "start"
  /\ preStart.remaining = 0
  /\ ~preStart.running
  /\ isRunning
  /\ remainingTime = SessionDuration(isWorkSession, workTime, breakTime)

\* C16: the session type changes only by skipSession() or by the tick that
\* ends a session.
C16_SessionChangesOnlyBySkipOrEnd ==
  [][isWorkSession' # isWorkSession => lastOp' \in {"skip", "tickEnd"}]_vars

\* A break duration was committed under a running break session.
C16_Witness ==
  /\ lastOp = "setBreak"
  /\ ~isWorkSession
  /\ isRunning

\* C17: pause() changes only the run state: remainingSeconds, the session
\* type and both durations are unchanged, the timer is stopped with no live
\* handle, and on a stopped timer nothing changes at all.
C17_PauseOnlyStops ==
  [][lastOp' = "pause" =>
       /\ UNCHANGED <<remainingTime, isWorkSession, workTime, breakTime>>
       /\ ~isRunning'
       /\ timers' = {}
       /\ intervalId' = NULL
       /\ ~isRunning => UNCHANGED <<store, timers>>]_vars

\* A break session paused in the middle.
C17_Witness ==
  /\ lastOp = "pause"
  /\ ~isWorkSession
  /\ 0 < remainingTime
  /\ remainingTime < breakTime

\* C18: remainingSeconds is a non-negative integer in every reachable state.
C18_RemainingNonNegative ==
  remainingTime \in Nat

\* The callback has fired at 0 and ended the session.
C18_Witness ==
  /\ lastOp = "tickEnd"
  /\ run.ticks = run.from + 1
  /\ remainingTime > 0

\* C13: the displayed time is floor(r / 60) zero-padded to two digits, a
\* colon, then r mod 60 zero-padded to two digits, for every remainingSeconds
\* r the engine holds.
C13_DisplayIsMinutesColonSeconds ==
  \A offset \in TimeZoneOffsets :
    Display(offset) = Pad2(remainingTime \div 60) \o <<":">> \o Pad2(remainingTime % 60)

\* C15: a running timer left alone eventually reaches Stopped in the opposite
\* session at that session's full duration, under weak fairness of the tick;
\* and no state is terminal: a stopped timer can be started and a running
\* one can tick.
C15_CycleContinues ==
  /\ \A s \in BOOLEAN :
       (isRunning /\ isWorkSession = s) ~>
         (/\ ~isRunning
          /\ isWorkSession = ~s
          /\ remainingTime = SessionDuration(~s, workTime, breakTime))
  /\ [](/\ ~isRunning => ENABLED (StartTimer /\ isRunning')
        /\ isRunning => ENABLED <<TickStep>>_vars)

\* A break session has run to its end and handed over to a work session.
C15_Witness ==
  /\ lastOp = "tickEnd"
  /\ isWorkSession
  /\ ~isRunning
  /\ remainingTime = workTime

\* C19: the state after the tick that ends a session is the same whether the
\* sound played, failed to play or was absent: stopped, session flipped,
\* remainingSeconds at the new full duration, no live handle; and start() is
\* accepted afterwards.
C19_SoundFailureNotFatal ==
  [][lastOp' = "tickEnd" =>
       /\ sink' \in {"absent", "resolved", "rejected"}
       /\ ~isRunning'
       /\ isWorkSession' = ~isWorkSession
       /\ remainingTime' = SessionDuration(~isWorkSession, workTime, breakTime)
       /\ timers' = {}
       /\ intervalId' = NULL
       /\ UNCHANGED <<workTime, breakTime, notificationSound>>
       /\ (ENABLED (StartTimer /\ isRunning'))']_vars

\* A session ended with a sound whose playback was rejected.
C19_Witness ==
  /\ lastOp = "tickEnd"
  /\ sink = "rejected"
  /\ ~isRunning
====
